---- MODULE Spec2Model ----
(***************************************************************************)
(* Model of GoogleReCaptchaProvider (src/src/google-recaptcha-provider.tsx) *)
(* the readiness coordinator around the reCAPTCHA script: the two refs,    *)
(* the effect that registers the global callback and injects the script,   *)
(* its load / error / ready handlers, the effect's cleanup, and            *)
(* executeRecaptcha.                                                       *)
(***************************************************************************)
EXTENDS Integers, Sequences, FiniteSets, TLC

(* ---------------------------- bounds ----------------------------------- *)

\* number of re-renders of the mounted provider that are explored
MaxRenders == 1
\* number of props that differ from the plain configuration
MaxCustom == 1
\* number of executeRecaptcha calls explored along with every configuration
MaxCalls == 1
\* number of executeRecaptcha calls explored along with the core configurations
MaxConcurrent == 2

(* ------------------------ values of the props -------------------------- *)

Undefined == "undefined"

Keys == {"", "abc", "xyz"}
Languages == {Undefined, "fr"}
ScriptIds == {Undefined, "my-script"}
CallbackNames == {Undefined, "myOnLoad"}
Elements == {Undefined, "#box"}
Badges == {Undefined, "bottomleft"}
UserCallbacks == {Undefined, "fnA"}
Children == {"childA", "childB"}
Actions == {"login", "submit"}
Tokens == {"tok1", "tok2"}

\* scriptProps?: { id?, onLoadCallbackName? }; defined = FALSE is a missing prop
NoScriptProps ==
  [defined |-> FALSE, id |-> Undefined, onLoadCallbackName |-> Undefined]

ScriptPropsValues ==
  [defined : {TRUE}, id : ScriptIds, onLoadCallbackName : CallbackNames]
    \cup {NoScriptProps}

\* container?: { element?, parameters: { badge?, callback? } }
NoContainer ==
  [defined |-> FALSE, element |-> Undefined,
   parameters |-> [badge |-> Undefined, callback |-> Undefined]]

ContainerValues ==
  [defined : {TRUE}, element : Elements,
   parameters : [badge : Badges, callback : UserCallbacks]]
    \cup {NoContainer}

IGoogleReCaptchaProviderProps ==
  [reCaptchaKey : Keys, useEnterprise : BOOLEAN, useRecaptchaNet : BOOLEAN,
   scriptProps : ScriptPropsValues, language : Languages,
   container : ContainerValues, children : Children]

\* the plain configuration: a key and nothing else
PlainProps ==
  [reCaptchaKey |-> "abc", useEnterprise |-> FALSE, useRecaptchaNet |-> FALSE,
   scriptProps |-> NoScriptProps, language |-> Undefined,
   container |-> NoContainer, children |-> "childA"]

B2N(b) == IF b THEN 1 ELSE 0

\* how many props of p differ from the plain configuration
Customised(p) ==
    B2N(p.reCaptchaKey # PlainProps.reCaptchaKey)
  + B2N(p.useEnterprise # PlainProps.useEnterprise)
  + B2N(p.useRecaptchaNet # PlainProps.useRecaptchaNet)
  + B2N(p.scriptProps # PlainProps.scriptProps)
  + B2N(p.language # PlainProps.language)
  + B2N(p.container # PlainProps.container)
  + B2N(p.children # PlainProps.children)

\* the configurations that are explored
Configs == {p \in IGoogleReCaptchaProviderProps : Customised(p) <= MaxCustom}

\* the configurations with or without a key, with either engine and in
\* either render mode
CoreConfigs ==
  {p \in Configs :
     /\ p.reCaptchaKey \in {"", PlainProps.reCaptchaKey}
     /\ p.useRecaptchaNet = PlainProps.useRecaptchaNet
     /\ p.language = PlainProps.language
     /\ p.children = PlainProps.children
     /\ p.scriptProps = PlainProps.scriptProps
     /\ p.container \in {NoContainer,
                          [defined |-> TRUE, element |-> "#box",
                           parameters |-> NoContainer.parameters]}}

(* --------------------------- pure helpers ------------------------------ *)

\* JSON.stringify of one member: undefined values and functions are left out
JsonMember(name, value, isFunction) ==
  IF value = Undefined \/ isFunction
    THEN <<>>
    ELSE << "\"" \o name \o "\":\"" \o value \o "\"" >>

RECURSIVE JsonJoin(_)
JsonJoin(members) ==
  IF Len(members) = 0 THEN ""
  ELSE IF Len(members) = 1 THEN members[1]
  ELSE members[1] \o "," \o JsonJoin(Tail(members))

\* JSON.stringify(scriptProps)
scriptPropsJson(p) ==
  IF ~p.scriptProps.defined THEN Undefined
  ELSE "{" \o JsonJoin(JsonMember("id", p.scriptProps.id, FALSE)
                \o JsonMember("onLoadCallbackName",
                              p.scriptProps.onLoadCallbackName, FALSE)) \o "}"

\* JSON.stringify(container?.parameters)
parametersJson(p) ==
  IF ~p.container.defined THEN Undefined
  ELSE "{" \o JsonJoin(JsonMember("badge", p.container.parameters.badge, FALSE)
                \o JsonMember("callback",
                              p.container.parameters.callback, TRUE)) \o "}"

\* the dependency list of the effect
EffectDeps(p) ==
  << p.useEnterprise, p.useRecaptchaNet, scriptPropsJson(p), parametersJson(p),
     p.language, p.reCaptchaKey, p.container.element >>

\* an effect that runs again whenever a prop is not the same value
DepsChangedAnyProp(old, new) == old # new

\* React re-runs an effect when some dependency is not the same value
DepsChanged(old, new) == EffectDeps(old) # EffectDeps(new)

\* a ref that is initialised again by every render
UseRefEveryRender(current, initial, firstRender) == initial

\* useRef(initial): the initial value is used by the first render only
UseRef(current, initial, firstRender) ==
  IF firstRender THEN initial ELSE current

\* promiseWithResolvers().resolve(v): a promise settles once
Resolve(deferred, v) == IF deferred = "pending" THEN v ELSE deferred

\* scriptProps?.id || 'google-recaptcha-v3'
ScriptIdOf(p) ==
  IF p.scriptProps.id = Undefined THEN "google-recaptcha-v3"
  ELSE p.scriptProps.id

\* scriptProps?.onLoadCallbackName || 'onRecaptchaLoadCallback'
OnLoadCallbackNameOf(p) ==
  IF p.scriptProps.onLoadCallbackName = Undefined THEN "onRecaptchaLoadCallback"
  ELSE p.scriptProps.onLoadCallbackName

\* useEnterprise ? window.grecaptcha.enterprise : window.grecaptcha
Grecaptcha(useEnterprise) ==
  IF useEnterprise THEN "grecaptcha.enterprise" ELSE "grecaptcha"

\* { badge: 'inline', size: 'invisible', sitekey, ...(container?.parameters || {}) }
RenderParams(reCaptchaKey, parameters) ==
  [badge |-> IF parameters.badge # Undefined THEN parameters.badge ELSE "inline",
   size |-> "invisible",
   sitekey |-> reCaptchaKey,
   callback |-> parameters.callback]

\* a callback that drops the handle grecaptcha.render returns
ClientIdNotStored(current, handle, throws) == current

\* clientId.current = grecaptcha.render(...): nothing is stored if it throws
ClientIdAfterRender(current, handle, throws) ==
  IF throws THEN current ELSE handle

\* the handle grecaptcha.render returns for the n-th widget of the page
WidgetHandle(n) == "widget" \o ToString(n)

(* ------------------------------ state ---------------------------------- *)

VARIABLES
  props,        \* the props of the last render
  mounted,      \* FALSE once the provider is unmounted
  renders,      \* re-renders so far
  deferred,     \* greCaptchaInstancePromiseRef: "pending", "null" or an engine
  clientId,     \* clientId.current
  window,       \* the global callback slots, by callback name
  scripts,      \* every script tag injected so far, with its handlers
  cleanup,      \* the cleanup function returned by the last run of the effect
  cleaned,      \* the calls of cleanGoogleRecaptcha so far
  renderLog,    \* the calls of grecaptcha.render so far, each with the
                \* number of the configuration cycle it was made in
  warnings,     \* the number of logWarningMessage calls so far
  effectRuns,   \* the site key of every run of the effect so far
  calls         \* the executeRecaptcha calls

vars == << props, mounted, renders, deferred, clientId, window, scripts,
           cleanup, cleaned, renderLog, warnings, effectRuns, calls >>

SlotNames == {"onRecaptchaLoadCallback"} \cup (CallbackNames \ {Undefined})

NoCallback ==
  [set |-> FALSE, useEnterprise |-> FALSE, reCaptchaKey |-> "",
   container |-> NoContainer]

NoCleanup == [registered |-> FALSE, scriptId |-> Undefined, element |-> Undefined]

CallIds == DOMAIN calls

IdleCall ==
  [state |-> "idle", action |-> Undefined, waited |-> FALSE,
   engine |-> Undefined, id |-> Undefined, arg |-> Undefined,
   token |-> Undefined, result |-> Undefined]

NotLoadedError ==
  "<GoogleReCaptchaProvider /> Google Recaptcha has not been loaded"

\* the part of the state the effect and its cleanup work on
Machine ==
  [deferred |-> deferred, window |-> window, scripts |-> scripts,
   cleanup |-> cleanup, cleaned |-> cleaned, warnings |-> warnings,
   effectRuns |-> effectRuns]

(* ------------------------- script loader ------------------------------- *)

\* injectGoogleReCaptchaScript: appends a script tag whose URL carries the
\* render parameter and the callback name, wired to onLoad and onError
injectGoogleReCaptchaScript(tags, args) ==
  Append(tags,
    [id |-> IF args.scriptProps.id = Undefined THEN "google-recaptcha-v3"
            ELSE args.scriptProps.id,
     src |-> [render |-> args.render, onload |-> args.onLoadCallbackName,
              enterprise |-> args.useEnterprise,
              recaptchaNet |-> args.useRecaptchaNet, hl |-> args.language],
     useEnterprise |-> args.useEnterprise,
     status |-> "loading",
     callbackFired |-> FALSE,
     inDocument |-> TRUE])

\* cleanGoogleRecaptcha(scriptId, container): detaches the tag with that id
cleanGoogleRecaptcha(tags, scriptId, element) ==
  [i \in DOMAIN tags |->
     IF tags[i].id = scriptId THEN [tags[i] EXCEPT !.inDocument = FALSE]
     ELSE tags[i]]

(* --------------------------- the effect -------------------------------- *)

\* the callback stored in window[onLoadCallbackName]: what its closure holds
OnLoadCallback(p) ==
  [set |-> TRUE, useEnterprise |-> p.useEnterprise,
   reCaptchaKey |-> p.reCaptchaKey, container |-> p.container]

\* the render argument of the injection
RenderArg(p) ==
  IF p.container.element # Undefined THEN "explicit" ELSE p.reCaptchaKey

\* the argument of the injection; onLoad and onError are the tag's handlers
InjectArgs(p) ==
  [render |-> RenderArg(p), onLoadCallbackName |-> OnLoadCallbackNameOf(p),
   useEnterprise |-> p.useEnterprise, useRecaptchaNet |-> p.useRecaptchaNet,
   scriptProps |-> p.scriptProps, language |-> p.language]

\* the effect without the resolve(null) of the missing-key branch
EffectKeepsPending(m, p) ==
  IF p.reCaptchaKey = ""
    THEN [m EXCEPT !.warnings = @ + 1,
                   !.cleanup = NoCleanup,
                   !.effectRuns = Append(@, p.reCaptchaKey)]
    ELSE [m EXCEPT
            !.effectRuns = Append(@, p.reCaptchaKey),
            !.window = [@ EXCEPT ![OnLoadCallbackNameOf(p)] = OnLoadCallback(p)],
            !.scripts = injectGoogleReCaptchaScript(@, InjectArgs(p)),
            !.cleanup = [registered |-> TRUE, scriptId |-> ScriptIdOf(p),
                         element |-> p.container.element]]

\* an effect that registers the callback under the default name only
EffectRegistersDefaultName(m, p) ==
  IF p.reCaptchaKey = ""
    THEN [m EXCEPT !.warnings = @ + 1,
                   !.deferred = Resolve(@, "null"),
                   !.cleanup = NoCleanup,
                   !.effectRuns = Append(@, p.reCaptchaKey)]
    ELSE [m EXCEPT
            !.effectRuns = Append(@, p.reCaptchaKey),
            !.window = [@ EXCEPT !["onRecaptchaLoadCallback"] = OnLoadCallback(p)],
            !.scripts = injectGoogleReCaptchaScript(@, InjectArgs(p)),
            !.cleanup = [registered |-> TRUE, scriptId |-> ScriptIdOf(p),
                         element |-> p.container.element]]

\* the body of the effect, run with the props p on the machine m
Effect(m, p) ==
  IF p.reCaptchaKey = ""
    THEN [m EXCEPT !.warnings = @ + 1,
                   !.deferred = Resolve(@, "null"),
                   !.cleanup = NoCleanup,
                   !.effectRuns = Append(@, p.reCaptchaKey)]
    ELSE [m EXCEPT
            !.effectRuns = Append(@, p.reCaptchaKey),
            !.window = [@ EXCEPT ![OnLoadCallbackNameOf(p)] = OnLoadCallback(p)],
            !.scripts = injectGoogleReCaptchaScript(@, InjectArgs(p)),
            !.cleanup = [registered |-> TRUE, scriptId |-> ScriptIdOf(p),
                         element |-> p.container.element]]

\* a cleanup that also settles the deferred value
RunCleanupResolvesNull(m) ==
  IF m.cleanup.registered
    THEN [m EXCEPT
            !.scripts = cleanGoogleRecaptcha(@, m.cleanup.scriptId,
                                             m.cleanup.element),
            !.cleaned = Append(@, [scriptId |-> m.cleanup.scriptId,
                                   element |-> m.cleanup.element]),
            !.deferred = Resolve(@, "null"),
            !.cleanup = NoCleanup]
    ELSE m

\* a cleanup that removes the script of the default id
RunCleanupDefaultId(m) ==
  IF m.cleanup.registered
    THEN [m EXCEPT
            !.scripts = cleanGoogleRecaptcha(@, "google-recaptcha-v3",
                                             m.cleanup.element),
            !.cleaned = Append(@, [scriptId |-> "google-recaptcha-v3",
                                   element |-> m.cleanup.element]),
            !.cleanup = NoCleanup]
    ELSE m

\* the cleanup function of the last run of the effect, if it returned one
RunCleanup(m) ==
  IF m.cleanup.registered
    THEN [m EXCEPT
            !.scripts = cleanGoogleRecaptcha(@, m.cleanup.scriptId,
                                             m.cleanup.element),
            !.cleaned = Append(@, [scriptId |-> m.cleanup.scriptId,
                                   element |-> m.cleanup.element]),
            !.cleanup = NoCleanup]
    ELSE m

\* a commit: the cleanup and the effect run when a dependency changed
Commit(m, old, new, firstRender) ==
  IF firstRender THEN Effect(m, new)
  ELSE IF DepsChanged(old, new) THEN Effect(RunCleanup(m), new)
  ELSE m

FreshMachine ==
  [deferred |-> "pending", window |-> [n \in SlotNames |-> NoCallback],
   scripts |-> <<>>, cleanup |-> NoCleanup, cleaned |-> <<>>, warnings |-> 0,
   effectRuns |-> <<>>]

SetMachine(m) ==
  /\ deferred' = m.deferred
  /\ window' = m.window
  /\ scripts' = m.scripts
  /\ cleanup' = m.cleanup
  /\ cleaned' = m.cleaned
  /\ warnings' = m.warnings
  /\ effectRuns' = m.effectRuns

\* the provider is mounted with the props p: first render, then the effect
Mount(p, callIds) ==
    LET m == Commit([FreshMachine EXCEPT
                       !.deferred = UseRef("pending", "pending", TRUE)],
                    p, p, TRUE)
    IN /\ props = p
       /\ mounted = TRUE
       /\ renders = 0
       /\ clientId = UseRef(p.reCaptchaKey, p.reCaptchaKey, TRUE)
       /\ deferred = m.deferred
       /\ window = m.window
       /\ scripts = m.scripts
       /\ cleanup = m.cleanup
       /\ cleaned = m.cleaned
       /\ warnings = m.warnings
       /\ effectRuns = m.effectRuns
       /\ renderLog = <<>>
       /\ calls = [c \in callIds |-> IdleCall]

Init == \E p \in Configs : Mount(p, 1 .. MaxCalls)

ConcurrentInit == \E p \in CoreConfigs : Mount(p, 1 .. MaxConcurrent)

\* the provider is rendered again with new props
Rerender(p) ==
  /\ mounted
  /\ renders < MaxRenders
  /\ p # props
  /\ LET m == Commit([Machine EXCEPT
                        !.deferred = UseRef(deferred, "pending", FALSE)],
                     props, p, FALSE)
     IN SetMachine(m)
  /\ clientId' = UseRef(clientId, p.reCaptchaKey, FALSE)
  /\ props' = p
  /\ renders' = renders + 1
  /\ UNCHANGED << mounted, renderLog, calls >>

\* the provider is unmounted: the last cleanup runs
Unmount ==
  /\ mounted
  /\ mounted' = FALSE
  /\ SetMachine(RunCleanup(Machine))
  /\ UNCHANGED << props, renders, clientId, renderLog, calls >>

(* ----------------------- events of a script tag ------------------------ *)

\* the script calls window[onload](): the callback renders the widget
GlobalCallback(i, throws) ==
  /\ scripts[i].status \in {"loading", "loaded"}
  /\ ~scripts[i].callbackFired
  /\ window[scripts[i].src.onload].set
  /\ LET cb == window[scripts[i].src.onload]
         grecaptcha == Grecaptcha(cb.useEnterprise)
         params == RenderParams(cb.reCaptchaKey, cb.container.parameters)
         handle == WidgetHandle(Len(renderLog))
     IN /\ throws => cb.container.element = Undefined
        /\ renderLog' = Append(renderLog,
              [engine |-> grecaptcha, element |-> cb.container.element,
               params |-> params, cycle |-> Len(effectRuns),
               handle |-> IF throws THEN Undefined ELSE handle])
        /\ clientId' = ClientIdAfterRender(clientId, handle, throws)
  /\ scripts' = [scripts EXCEPT ![i].callbackFired = TRUE]
  /\ UNCHANGED << props, mounted, renders, deferred, window, cleanup, cleaned,
                  warnings, effectRuns, calls >>

\* a load handler that resolves the deferred value itself
OnLoadResolvesDirectly(i, present) ==
  /\ scripts[i].status = "loading"
  /\ scripts[i].callbackFired => present
  /\ IF ~present
       THEN /\ warnings' = warnings + 1
            /\ deferred' = Resolve(deferred, "null")
            /\ scripts' = [scripts EXCEPT ![i].status = "unavailable"]
       ELSE /\ scripts' = [scripts EXCEPT ![i].status = "loaded"]
            /\ deferred' = Resolve(deferred, Grecaptcha(scripts[i].useEnterprise))
            /\ UNCHANGED warnings
  /\ UNCHANGED << props, mounted, renders, clientId, window, cleanup, cleaned,
                  renderLog, effectRuns, calls >>

\* the load event: onLoad
OnLoad(i, present) ==
  /\ scripts[i].status = "loading"
  /\ scripts[i].callbackFired => present
  /\ IF ~present
       THEN /\ warnings' = warnings + 1
            /\ deferred' = Resolve(deferred, "null")
            /\ scripts' = [scripts EXCEPT ![i].status = "unavailable"]
       ELSE /\ scripts' = [scripts EXCEPT ![i].status = "loaded"]
            /\ UNCHANGED << warnings, deferred >>
  /\ UNCHANGED << props, mounted, renders, clientId, window, cleanup, cleaned,
                  renderLog, effectRuns, calls >>

\* the engine runs the continuation given to grecaptcha.ready
Ready(i) ==
  /\ scripts[i].status = "loaded"
  /\ deferred' = Resolve(deferred, Grecaptcha(scripts[i].useEnterprise))
  /\ scripts' = [scripts EXCEPT ![i].status = "ready"]
  /\ UNCHANGED << props, mounted, renders, clientId, window, cleanup, cleaned,
                  renderLog, warnings, effectRuns, calls >>

\* an error handler that leaves the deferred value pending
OnErrorOnlyWarns(i) ==
  /\ scripts[i].status = "loading"
  /\ ~scripts[i].callbackFired
  /\ warnings' = warnings + 1
  /\ scripts' = [scripts EXCEPT ![i].status = "error"]
  /\ UNCHANGED << props, mounted, renders, deferred, clientId, window, cleanup,
                  cleaned, renderLog, effectRuns, calls >>

\* the error event: onError
OnError(i) ==
  /\ scripts[i].status = "loading"
  /\ ~scripts[i].callbackFired
  /\ warnings' = warnings + 1
  /\ deferred' = Resolve(deferred, "null")
  /\ scripts' = [scripts EXCEPT ![i].status = "error"]
  /\ UNCHANGED << props, mounted, renders, clientId, window, cleanup, cleaned,
                  renderLog, effectRuns, calls >>

(* -------------------------- executeRecaptcha --------------------------- *)

\* an executeRecaptcha that writes the current site key into clientId
ExecuteRefreshesClientId(c, action) ==
  /\ mounted
  /\ calls[c].state = "idle"
  /\ IF c = 1 THEN TRUE ELSE calls[c - 1].state # "idle"
  /\ calls' = [calls EXCEPT ![c] = [@ EXCEPT !.state = "awaiting",
                                             !.action = action,
                                             !.waited = (deferred = "pending")]]
  /\ clientId' = props.reCaptchaKey
  /\ UNCHANGED << props, mounted, renders, deferred, window, scripts,
                  cleanup, cleaned, renderLog, warnings, effectRuns >>

\* executeRecaptcha(action) up to its await
Execute(c, action) ==
  /\ mounted
  /\ calls[c].state = "idle"
  /\ IF c = 1 THEN TRUE ELSE calls[c - 1].state # "idle"
  /\ calls' = [calls EXCEPT ![c] = [@ EXCEPT !.state = "awaiting",
                                             !.action = action,
                                             !.waited = (deferred = "pending")]]
  /\ UNCHANGED << props, mounted, renders, deferred, clientId, window, scripts,
                  cleanup, cleaned, renderLog, warnings, effectRuns >>

\* executeRecaptcha passing no action to the engine
AfterAwaitDropsAction(call, greCaptchaInstance, id) ==
  IF greCaptchaInstance = "null"
    THEN [call EXCEPT !.state = "rejected", !.result = NotLoadedError]
    ELSE [call EXCEPT !.state = "executing", !.engine = greCaptchaInstance,
                      !.id = id, !.arg = Undefined]

\* what executeRecaptcha does with the awaited value
AfterAwait(call, greCaptchaInstance, id) ==
  IF greCaptchaInstance = "null"
    THEN [call EXCEPT !.state = "rejected", !.result = NotLoadedError]
    ELSE [call EXCEPT !.state = "executing", !.engine = greCaptchaInstance,
                      !.id = id, !.arg = call.action]

\* the await ends: the deferred value is resolved
Resume(c) ==
  /\ calls[c].state = "awaiting"
  /\ deferred # "pending"
  /\ calls' = [calls EXCEPT ![c] = AfterAwait(@, deferred, clientId)]
  /\ UNCHANGED << props, mounted, renders, deferred, clientId, window, scripts,
                  cleanup, cleaned, renderLog, warnings, effectRuns >>

\* what executeRecaptcha returns once the engine's execute has returned
Returned(call, token) ==
  [call EXCEPT !.state = "resolved", !.token = token, !.result = token]

\* the engine's execute resolves with a token
EngineResolves(c, token) ==
  /\ calls[c].state = "executing"
  /\ calls' = [calls EXCEPT ![c] = Returned(@, token)]
  /\ UNCHANGED << props, mounted, renders, deferred, clientId, window, scripts,
                  cleanup, cleaned, renderLog, warnings, effectRuns >>

\* the engine's execute rejects
EngineRejects(c) ==
  /\ calls[c].state = "executing"
  /\ calls' = [calls EXCEPT ![c] = [@ EXCEPT !.state = "rejected",
                                             !.result = "engine error"]]
  /\ UNCHANGED << props, mounted, renders, deferred, clientId, window, scripts,
                  cleanup, cleaned, renderLog, warnings, effectRuns >>

(* ------------------- the context's default value ---------------------- *)

ContextError ==
  "GoogleReCaptcha Context has not yet been implemented, if you are using useGoogleReCaptcha hook, make sure the hook is called inside component wrapped by GoogleRecaptchaProvider"

\* a default executeRecaptcha that waits for the deferred value
DefaultExecuteRecaptchaAwaits(call) ==
  [call EXCEPT !.state = "awaiting", !.waited = (deferred = "pending")]

\* the executeRecaptcha of createContext's default value: it throws
DefaultExecuteRecaptcha(call) ==
  [call EXCEPT !.state = "thrown", !.result = ContextError]

\* a consumer calls executeRecaptcha while no provider is mounted above it:
\* the context gives it the default value
DefaultExecute(c) ==
  /\ ~mounted
  /\ calls[c].state = "idle"
  /\ IF c = 1 THEN TRUE ELSE calls[c - 1].state # "idle"
  /\ calls' = [calls EXCEPT ![c] = DefaultExecuteRecaptcha(@)]
  /\ UNCHANGED << props, mounted, renders, deferred, clientId, window, scripts,
                  cleanup, cleaned, renderLog, warnings, effectRuns >>

(* --------------------------- specification ----------------------------- *)

Events ==
  \/ Unmount
  \/ \E i \in DOMAIN scripts, throws \in BOOLEAN : GlobalCallback(i, throws)
  \/ \E i \in DOMAIN scripts, present \in BOOLEAN : OnLoad(i, present)
  \/ \E i \in DOMAIN scripts : Ready(i)
  \/ \E i \in DOMAIN scripts : OnError(i)
  \/ \E c \in CallIds, action \in Actions : Execute(c, action)
  \/ \E c \in CallIds : Resume(c)
  \/ \E c \in CallIds, token \in Tokens : EngineResolves(c, token)
  \/ \E c \in CallIds : EngineRejects(c)
  \/ \E c \in CallIds : DefaultExecute(c)

Next ==
  \/ \E p \in Configs : Rerender(p)
  \/ Events

Spec == Init /\ [][Next]_vars

ConcurrentNext ==
  \/ \E p \in CoreConfigs : Rerender(p)
  \/ Events

\* several executeRecaptcha calls at once, over the core configurations
ConcurrentSpec == ConcurrentInit /\ [][ConcurrentNext]_vars

\* the event loop runs the continuation of an await whose promise is settled
ConcurrentFairSpec ==
  /\ ConcurrentSpec
  /\ \A c \in 1 .. MaxConcurrent : WF_vars(Resume(c))

\* the engine's execute settles
EngineSettles(c) ==
  (\E token \in Tokens : EngineResolves(c, token)) \/ EngineRejects(c)

\* the event loop runs the continuation of an await whose promise is settled,
\* and the engine settles every execute; nothing makes a script tag fire its
\* load or error event
FairSpec ==
  /\ Spec
  /\ \A c \in 1 .. MaxCalls : WF_vars(Resume(c)) /\ WF_vars(EngineSettles(c))

(* ------------------------------ claims --------------------------------- *)

\* the calls that have passed their await
Resumed(c) == calls[c].state \in {"executing", "resolved", "rejected"}

\* the call c ends its await in this step
Resumes(c) == calls[c].state = "awaiting" /\ calls'[c].state # "awaiting"

\* the mount has had one configuration: the effect ran once, with a key, and
\* the script it injected has loaded with the engine present and is ready
ReadyFirstCycle ==
  /\ Len(effectRuns) = 1
  /\ effectRuns[1] # ""
  /\ scripts[1].status = "ready"

\* C1: in a mount configured with a non-empty site key whose script loaded
\* with the engine present and whose ready continuation ran, no call fails
\* with the "not loaded" error, a call that ends its await invokes the
\* engine's execute with (clientId.current at that moment, {action}), and a
\* call that resolves, resolves with the token that execute returned.
C1_ExecuteReturnsEngineToken ==
  /\ [](ReadyFirstCycle =>
          \A c \in DOMAIN calls : calls[c].result # NotLoadedError)
  /\ [][\A c \in DOMAIN calls :
          /\ (ReadyFirstCycle /\ Resumes(c)) =>
                /\ calls'[c].state = "executing"
                /\ calls'[c].engine = Grecaptcha(props.useEnterprise)
                /\ calls'[c].id = clientId
                /\ calls'[c].arg = calls[c].action
          /\ (ReadyFirstCycle /\ calls[c].state = "executing"
                /\ calls'[c].state = "resolved") =>
                /\ calls'[c].result = calls'[c].token
                /\ calls'[c].token \in Tokens]_vars

\* a call made before readiness has resolved with the engine's token
C1_Witness ==
  /\ ReadyFirstCycle
  /\ \E c \in DOMAIN calls :
       /\ calls[c].state = "resolved"
       /\ calls[c].waited
       /\ calls[c].result = "tok2"

\* the site key has been empty in every run of the effect
NeverKeyed == \A i \in DOMAIN effectRuns : effectRuns[i] = ""

\* C2: in a mount whose site key is empty, no script tag has been injected,
\* no global callback has been registered, the deferred value is resolved to
\* null, and every call that has passed its await failed with the
\* "not loaded" error.
C2_EmptyKeyUnavailable ==
  NeverKeyed =>
    /\ scripts = <<>>
    /\ \A n \in SlotNames : ~window[n].set
    /\ deferred = "null"
    /\ \A c \in DOMAIN calls :
         Resumed(c) =>
           calls[c].state = "rejected" /\ calls[c].result = NotLoadedError

\* a call has failed in a mount with an empty key
C2_Witness ==
  /\ NeverKeyed
  /\ props.reCaptchaKey = ""
  /\ \E c \in DOMAIN calls : calls[c].state = "rejected"

\* C3: once the deferred value is resolved (to an engine or to null), no
\* step changes it.
C3_ResolvedAtMostOnce ==
  [][deferred # "pending" => deferred' = deferred]_vars

\* a ready continuation has run after the deferred value was resolved to
\* null, across a reconfiguration
C3_Witness ==
  /\ deferred = "null"
  /\ renders = 1
  /\ \E i \in DOMAIN scripts : scripts[i].status = "ready"

\* C4: every executeRecaptcha call made in an active mount eventually
\* completes, with a token or with a failure.
C4_EveryCallCompletes ==
  \A c \in 1 .. MaxCalls :
    (calls[c].state = "awaiting") ~> (calls[c].state \in {"resolved", "rejected"})

\* the tracked configuration values, compared field by field
TrackedValues(p) ==
  << p.reCaptchaKey, p.useEnterprise, p.useRecaptchaNet, p.language,
     p.scriptProps, p.container.defined, p.container.parameters,
     p.container.element >>

\* this step is a re-render
IsRerender == renders' = renders + 1

\* C5: when a tracked configuration value changes, the readiness state
\* machine restarts from Unconfigured: after the re-render the deferred value
\* is pending again (or, with an empty new key, resolved to null by the new
\* cycle), whatever it was resolved to before.
C5_ReconfigurationRestarts ==
  [][(IsRerender /\ TrackedValues(props) # TrackedValues(props')) =>
       deferred' = IF props'.reCaptchaKey = "" THEN "null" ELSE "pending"]_vars

SerialisedValues(p) ==
  << p.reCaptchaKey, p.useEnterprise, p.useRecaptchaNet, p.language,
     p.scriptProps, p.container.defined, p.container.parameters.badge,
     p.container.element >>

C7_ImplicitCallbackDoesNotRender ==
  [][\A i \in DOMAIN scripts :
       (/\ ~scripts[i].callbackFired
        /\ scripts'[i].callbackFired
        /\ window[scripts[i].src.onload].container.element = Undefined)
       => (renderLog' = renderLog /\ clientId' = clientId)]_vars

\* the script injected by the last run of the effect, while its cycle lasts
CycleIsLive == mounted /\ cleanup.registered

CurrentScript == scripts[Len(scripts)]

\* a mount element is configured and the effect has injected for it
ExplicitMode == CycleIsLive /\ props.container.element # Undefined

\* the global callback of the script i runs in this step
CallbackFires(i) == ~scripts[i].callbackFired /\ scripts'[i].callbackFired

\* C8: in explicit-render mode the script is injected with render="explicit"
\* and the registered callback holds the configured key and mount element;
\* a callback of a configuration with a mount element renders against that
\* element with {badge: inline, size: invisible, sitekey: key} overridden by
\* the caller's parameters and stores the returned handle in clientId; and a
\* call that reaches the engine after the current script's callback has fired
\* passes the stored handle, which is a handle returned by a render call (in
\* a mount that has had one configuration: by the render against the
\* configured mount element) and not the site key.
C8_ExplicitModeUsesRenderHandle ==
  /\ [](ExplicitMode =>
          /\ CurrentScript.src.render = "explicit"
          /\ window[CurrentScript.src.onload].set
          /\ window[CurrentScript.src.onload].reCaptchaKey = props.reCaptchaKey
          /\ window[CurrentScript.src.onload].container.element
               = props.container.element
          /\ window[CurrentScript.src.onload].container.parameters.badge
               = props.container.parameters.badge)
  /\ [][\A i \in DOMAIN scripts :
          LET cb == window[scripts[i].src.onload]
              caller == cb.container.parameters
          IN (CallbackFires(i) /\ cb.container.element # Undefined) =>
               /\ Len(renderLog') = Len(renderLog) + 1
               /\ renderLog'[Len(renderLog')].element = cb.container.element
               /\ renderLog'[Len(renderLog')].params =
                    [badge |-> IF caller.badge = Undefined THEN "inline"
                               ELSE caller.badge,
                     size |-> "invisible",
                     sitekey |-> cb.reCaptchaKey,
                     callback |-> caller.callback]
               /\ renderLog'[Len(renderLog')].handle # Undefined
               /\ clientId' = renderLog'[Len(renderLog')].handle]_vars
  /\ [][\A c \in DOMAIN calls :
          (/\ ExplicitMode
           /\ CurrentScript.callbackFired
           /\ Resumes(c)
           /\ calls'[c].state = "executing") =>
             /\ calls'[c].id = clientId
             /\ calls'[c].id # props.reCaptchaKey
             /\ \E k \in DOMAIN renderLog : renderLog[k].handle = calls'[c].id
             /\ Len(effectRuns) = 1 =>
                  /\ calls'[c].id = renderLog[Len(renderLog)].handle
                  /\ renderLog[Len(renderLog)].element
                       = props.container.element]_vars

\* a call has reached the engine with the handle of the rendered widget, in
\* explicit-render mode with a caller's badge
C8_Witness ==
  /\ ExplicitMode
  /\ props.container.parameters.badge = "bottomleft"
  /\ CurrentScript.callbackFired
  /\ \E c \in DOMAIN calls :
       /\ calls[c].state = "executing"
       /\ calls[c].id = "widget0"
       /\ renderLog[1].params.badge = "bottomleft"

\* C9: when a script tag fires its error event while the deferred value is
\* pending, the deferred value resolves to null and exactly one warning is
\* logged; and every call that ends its await while the deferred value is
\* null is rejected with the "not loaded" error.
C9_ScriptErrorMakesUnavailable ==
  /\ [][\A i \in DOMAIN scripts :
          (/\ scripts[i].status = "loading"
           /\ scripts'[i].status = "error"
           /\ deferred = "pending")
          => (deferred' = "null" /\ warnings' = warnings + 1)]_vars
  /\ [][\A c \in DOMAIN calls :
          (deferred = "null" /\ Resumes(c)) =>
            /\ calls'[c].state = "rejected"
            /\ calls'[c].result = NotLoadedError]_vars

\* a call that was waiting when the script failed has been rejected
C9_Witness ==
  /\ Len(scripts) = 1
  /\ scripts[1].status = "error"
  /\ deferred = "null"
  /\ warnings = 1
  /\ \E c \in DOMAIN calls :
       /\ calls[c].waited
       /\ calls[c].state = "rejected"
       /\ calls[c].result = NotLoadedError

\* the resolution of the deferred value the call c went on with
Observed(c) ==
  IF calls[c].state = "rejected" /\ calls[c].result = NotLoadedError
    THEN "null"
    ELSE calls[c].engine

\* the calls that have passed their await went on with the one resolution of
\* the deferred value
OneResolution ==
  /\ \A c \in DOMAIN calls : Resumed(c) => Observed(c) = deferred
  /\ \A c, d \in DOMAIN calls :
       (Resumed(c) /\ Resumed(d)) => Observed(c) = Observed(d)

\* C10: the calls that have passed their await all went on with the one
\* resolution of the deferred value: all of them to the engine's execute, on
\* the same engine, or all of them to the "not loaded" error; and once the
\* deferred value is resolved no call stays at its await.
C10_WaitersSeeOneResolution ==
  /\ []OneResolution
  /\ \A c \in 1 .. MaxConcurrent :
       (calls[c].state = "awaiting" /\ deferred # "pending")
          ~> (calls[c].state # "awaiting")

\* two calls started while the deferred value was pending have both gone on
\* to the engine
C10_Witness ==
  /\ Cardinality({c \in DOMAIN calls : calls[c].waited /\ Resumed(c)}) >= 2
  /\ \A c \in DOMAIN calls : Resumed(c) => calls[c].engine = "grecaptcha"
  /\ renders = 1

\* this step is a step of an executeRecaptcha call: its start, the end of its
\* await, or the settlement of the engine's execute
IsCallStep == calls' # calls

\* C11: no step of an executeRecaptcha call changes the injected script tags,
\* the global callback slots, the Widget Identifier or the deferred value.
C11_ExecuteChangesNoCoordinatorState ==
  [][IsCallStep =>
       /\ scripts' = scripts
       /\ window' = window
       /\ clientId' = clientId
       /\ deferred' = deferred]_vars

\* two calls have completed after the widget was rendered, and the one
\* script, the rendered widget's handle and the resolution are as they were
C11_Witness ==
  /\ \A c \in DOMAIN calls : calls[c].state = "resolved"
  /\ Cardinality(DOMAIN calls) >= 2
  /\ Len(scripts) = 1
  /\ clientId = "widget0"
  /\ clientId # props.reCaptchaKey
  /\ deferred = "grecaptcha"

\* this step runs the cleanup of the effect: a teardown
IsTeardown == Len(cleaned') = Len(cleaned) + 1

\* the step after which no cycle registers under the callback name n: an
\* unmount, or a reconfiguration to an empty key or to another callback name
NotRegisteredAgain(n) ==
  \/ ~mounted'
  \/ props'.reCaptchaKey = ""
  \/ OnLoadCallbackNameOf(props') # n

\* C12: a teardown (reconfiguration or unmount) of a cycle that registered a
\* global callback leaves no stale entry: unless the next cycle registers its
\* own callback under the same name, the slot of the torn-down cycle's
\* callback name is empty after the teardown.
C12_TeardownClearsCallbackSlot ==
  [][IsTeardown =>
       LET n == OnLoadCallbackNameOf(props)
       IN NotRegisteredAgain(n) => ~window'[n].set]_vars

\* the script options and the render parameters, compared field by field
OptionsAndParameters(p) ==
  << p.scriptProps, p.container.defined, p.container.parameters >>

\* the other dependencies of the effect
ScalarDeps(p) ==
  << p.useEnterprise, p.useRecaptchaNet, p.language, p.reCaptchaKey,
     p.container.element >>

\* C13: between two keyed configurations that agree on the other tracked
\* values, a re-render whose script options and render parameters are
\* structurally equal to the previous ones makes no teardown and no
\* injection, and a re-render whose script options or render parameters
\* differ in any field, the callback included, makes a restart: one teardown
\* and one injection.
C13_StructuralEqualityDecidesRestart ==
  [][(/\ IsRerender
      /\ props.reCaptchaKey # ""
      /\ ScalarDeps(props) = ScalarDeps(props')) =>
       IF OptionsAndParameters(props) = OptionsAndParameters(props')
         THEN Len(cleaned') = Len(cleaned) /\ Len(scripts') = Len(scripts)
         ELSE /\ Len(cleaned') = Len(cleaned) + 1
              /\ Len(scripts') = Len(scripts) + 1]_vars

\* the call c starts in this step
Starts(c) == calls[c].state = "idle" /\ calls'[c].state # "idle"

\* C14: while no provider is mounted, a call of executeRecaptcha gets the
\* context's default value: it fails in the step it is made in, with the
\* configuration error, whatever the deferred value of an earlier mount is,
\* and it injects no script and changes nothing else.
C14_DefaultContextThrows ==
  [][\A c \in DOMAIN calls :
       (~mounted /\ Starts(c)) =>
         /\ calls'[c].state = "thrown"
         /\ calls'[c].result = ContextError
         /\ calls'[c].engine = Undefined
         /\ scripts' = scripts
         /\ deferred' = deferred
         /\ window' = window]_vars

\* a call made after the provider was unmounted with its script still
\* loading has failed with the configuration error
C14_Witness ==
  /\ ~mounted
  /\ deferred = "pending"
  /\ \E c \in DOMAIN calls :
       calls[c].state = "thrown" /\ calls[c].result = ContextError

\* the load handler of the script i runs in this step and finds no engine
LoadsWithoutEngine(i) ==
  scripts[i].status = "loading" /\ scripts'[i].status = "unavailable"

\* the load handler of the script i runs in this step and finds the engine
LoadsWithEngine(i) ==
  scripts[i].status = "loading" /\ scripts'[i].status = "loaded"

\* the ready continuation of the script i runs in this step
ReadyRuns(i) == scripts[i].status = "loaded" /\ scripts'[i].status = "ready"

\* C15: a load event that finds no engine logs one warning, resolves the
\* pending deferred value to null and registers no ready continuation (none
\* ever runs for that script), and a call that ends its await on the null
\* value fails with the "not loaded" error; a load event that finds the
\* engine leaves the deferred value as it is, and the deferred value takes an
\* engine handle only in a step of a ready continuation.
C15_LoadWithoutEngineIsUnavailable ==
  /\ [][\A i \in DOMAIN scripts :
          /\ LoadsWithoutEngine(i) =>
               /\ warnings' = warnings + 1
               /\ deferred = "pending" => deferred' = "null"
          /\ scripts[i].status = "unavailable" =>
               scripts'[i].status = "unavailable"
          /\ LoadsWithEngine(i) =>
               deferred' = deferred /\ warnings' = warnings]_vars
  /\ [][(deferred' # deferred /\ deferred' # "null") =>
          \E i \in DOMAIN scripts :
            /\ ReadyRuns(i)
            /\ deferred' = Grecaptcha(scripts[i].useEnterprise)]_vars
  /\ [][\A c \in DOMAIN calls :
          (/\ Resumes(c)
           /\ \E i \in DOMAIN scripts : scripts[i].status = "unavailable"
           /\ Len(effectRuns) = 1) =>
             /\ calls'[c].state = "rejected"
             /\ calls'[c].result = NotLoadedError]_vars

\* a call that was waiting when the script loaded without the engine has
\* been rejected
C15_Witness ==
  /\ Len(scripts) = 1
  /\ scripts[1].status = "unavailable"
  /\ deferred = "null"
  /\ warnings = 1
  /\ \E c \in DOMAIN calls :
       /\ calls[c].waited
       /\ calls[c].state = "rejected"
       /\ calls[c].result = NotLoadedError

\* C16: in every state where the script injected by the current cycle exists
\* (the last run of the effect had a site key and has not been torn down),
\* the global callback slot named in that script's URL holds the callback
\* the same run of the effect registered: one of the cycle's site key,
\* engine namespace, mount element and serialised render parameters.
C16_CallbackRegisteredForInjectedScript ==
  CycleIsLive =>
    LET cb == window[CurrentScript.src.onload]
    IN /\ CurrentScript.src.onload = OnLoadCallbackNameOf(props)
       /\ cb.set
       /\ cb.reCaptchaKey = effectRuns[Len(effectRuns)]
       /\ cb.reCaptchaKey = props.reCaptchaKey
       /\ cb.useEnterprise = props.useEnterprise
       /\ cb.container.element = props.container.element
       /\ cb.container.parameters.badge = props.container.parameters.badge

\* the second cycle of a mount has injected its script under a callback name
\* of its own, and the script is still loading
C16_Witness ==
  /\ CycleIsLive
  /\ Len(scripts) = 2
  /\ CurrentScript.status = "loading"
  /\ ~CurrentScript.callbackFired
  /\ CurrentScript.src.onload = "myOnLoad"
  /\ window["myOnLoad"].set

\* C17: a step that runs the cleanup of the effect (a reconfiguration or the
\* unmount) changes no executeRecaptcha call, so a call at its await is still
\* at its await after it, and leaves the deferred value as it is; the one
\* change of the deferred value in such a step is the resolve(null) of the
\* next run of the effect, when the new site key is empty. A call ends its
\* await only when the deferred value is resolved.
C17_TeardownSettlesNothing ==
  /\ [][IsTeardown =>
          /\ calls' = calls
          /\ deferred' = IF mounted' /\ props'.reCaptchaKey = ""
                           THEN Resolve(deferred, "null")
                           ELSE deferred]_vars
  /\ [][\A c \in DOMAIN calls : Resumes(c) => deferred # "pending"]_vars

\* a call that was at its await when the provider was unmounted is still at
\* its await, on a deferred value that is still pending
C17_Witness ==
  /\ ~mounted
  /\ Len(cleaned) = 1
  /\ deferred = "pending"
  /\ \E c \in DOMAIN calls : calls[c].state = "awaiting" /\ calls[c].waited

\* the script i belongs to a cycle that has been torn down
TornDown(i) == ~scripts[i].inDocument

\* a load or error handler of the script i makes the deferred value null
MakesUnavailable(i) ==
  /\ scripts[i].status = "loading"
  /\ scripts'[i].status \in {"unavailable", "error"}
  /\ deferred' = "null"
  /\ deferred # "null"

\* C18: while the provider is mounted, an engine handle held by the deferred
\* value is the namespace the current configuration's enterprise flag
\* selects, and no load or error event of a script that has been torn down
\* makes the deferred value null.
C18_StaleEventsDoNotDecideReadiness ==
  /\ []((mounted /\ deferred \notin {"pending", "null"}) =>
          deferred = Grecaptcha(props.useEnterprise))
  /\ [][\A i \in DOMAIN scripts :
          (mounted /\ TornDown(i)) => ~MakesUnavailable(i)]_vars

\* the handles returned by the render calls made in the current cycle
HandlesOfCurrentCycle ==
  {renderLog[k].handle : k \in {j \in DOMAIN renderLog :
      renderLog[j].cycle = Len(effectRuns) /\ renderLog[j].handle # Undefined}}

\* C19: whenever a call of a mounted provider goes on to the engine's
\* execute, the identifier it passes is the current configuration's site key
\* or a handle returned by a render call made in the current cycle.
C19_ExecutePassesCurrentIdentifier ==
  [][\A c \in DOMAIN calls :
       (mounted /\ Resumes(c) /\ calls'[c].state = "executing") =>
          \/ calls'[c].id = props.reCaptchaKey
          \/ calls'[c].id \in HandlesOfCurrentCycle]_vars

\* the injections that no teardown has followed yet
Outstanding == Len(scripts) - Len(cleaned)

\* C20: at most one injected script is outstanding: the teardowns so far are
\* those of the injections before the outstanding one, in order and each
\* with its injection's script id, the outstanding injection is the most
\* recent one and exists exactly while the effect's cleanup is registered,
\* and after the unmount none is outstanding; every teardown is called with
\* the script id of the most recent injection and the mount element its
\* cycle was configured with.
C20_AtMostOneOutstandingScript ==
  /\ [](/\ Outstanding = B2N(cleanup.registered)
        /\ \A i \in DOMAIN cleaned : cleaned[i].scriptId = scripts[i].id
        /\ ~mounted => Outstanding = 0)
  /\ [][IsTeardown =>
          /\ Outstanding = 1
          /\ cleaned' = Append(cleaned,
               [scriptId |-> CurrentScript.id,
                element |-> window[CurrentScript.src.onload].container.element])
          /\ props.container.element
               = window[CurrentScript.src.onload].container.element]_vars

\* a mount that went from the default script id to another one has been
\* unmounted, and each of the two injections had its own teardown
C20_Witness ==
  /\ ~mounted
  /\ Len(scripts) = 2
  /\ Len(cleaned) = 2
  /\ cleaned[1].scriptId = "google-recaptcha-v3"
  /\ cleaned[2].scriptId = "my-script"

====
